---- MODULE Spec2Model ----
(***************************************************************************)
(* Model of src/src/index.ts: the Code-Search Collector (searchViemRepos)  *)
(* and the Dependents-Page Scraper (main / scrapeGitHubDependents /        *)
(* parseStarCount).  The module calls searchViemRepos() and main() at top  *)
(* level (lines 212 and 429) without awaiting either, so both async        *)
(* functions run in one process and interleave at their await points.      *)
(* Every action below is one synchronous run of the event loop: from the   *)
(* resumption of an await to the next await (or to process.exit).          *)
(*                                                                         *)
(* Environment assumptions (inputs the model draws):                       *)
(*  - a search page holds at most per_page items (the API's contract);     *)
(*  - a successful detail response carries a natural stargazers_count;     *)
(*  - Bun.write succeeds; the file holds the list when the write ends;     *)
(*  - a fetch and the read of its body are one request in flight;          *)
(*  - star texts hold no sign, no exponent letter and no "Infinity".       *)
(***************************************************************************)
EXTENDS Integers, Sequences, FiniteSets, TLC

VARIABLES
  token,            \* process.env.GITHUB_TOKEN is set
  exitCode,         \* 1 once process.exit(1) has run (the process is dead), else 0
  inflight,         \* HTTP requests issued and not yet answered
  cpc,              \* searchViemRepos: where it is suspended
  page,             \* searchViemRepos: loop variable `page`
  uniqueRepoNames,  \* searchViemRepos: the Set, in insertion order
  repositories,     \* searchViemRepos: the array `repositories`
  repoFile,         \* ./viem_repositories.json
  trace,            \* history: "page" per search request, "pause" per 7 s timer
  pageLog,          \* history: one entry per search-page response
  detailReqs,       \* history: the names detail requests were issued for
  detailLog,        \* history: one entry per detail response
  preSortRepos,     \* history: `repositories` right before line 188
  spc,              \* main / scrapeGitHubDependents: where it is suspended
  currentPage,      \* scrapeGitHubDependents: `currentPage`
  nextPageUrl,      \* scrapeGitHubDependents: `nextPageUrl` (0 is null)
  depRepos,         \* scrapeGitHubDependents: the array `repositories`
  depFile,          \* ./viem_dependents_scraped.json
  depLog,           \* history: the kind of every dependents-page response
  depFetches,       \* history: number of dependents-page fetches issued
  preSortDeps,      \* history: `repositories` right before line 347
  ppc,              \* parseStarCount harness: "input" or "parsed"
  starsText,        \* parseStarCount harness: the argument
  starCount         \* parseStarCount harness: the value returned

vars == <<token, exitCode, inflight, cpc, page, uniqueRepoNames, repositories,
          repoFile, trace, pageLog, detailReqs, detailLog, preSortRepos,
          spc, currentPage, nextPageUrl, depRepos, depFile, depLog,
          depFetches, preSortDeps, ppc, starsText, starCount>>

searchVars == <<cpc, page, uniqueRepoNames, repositories, repoFile, trace,
                pageLog, detailReqs, detailLog, preSortRepos>>

scrapeVars == <<spc, currentPage, nextPageUrl, depRepos, depFile, depLog,
                depFetches, preSortDeps>>

parseVars == <<ppc, starsText, starCount>>

(***************************************************************************)
(* Program constants.                                                      *)
(***************************************************************************)
maxPages == 10
perPage == 100
PauseMs == 7000

(***************************************************************************)
(* Bounds of the environment the model draws inputs from.                  *)
(***************************************************************************)
MaxRepos == 2        \* distinct repository full names the APIs mention
MaxDepPages == 2     \* the listing serves a "Next" link below this page
MaxEntries == 2      \* Box-row entries on one dependents page
MaxLen == 3          \* length of the star texts parseStarCount is tried on

(***************************************************************************)
(* JavaScript numbers: an integer or NaN.                                  *)
(***************************************************************************)
Num(n) == [nan |-> FALSE, v |-> n]
NaN == [nan |-> TRUE, v |-> 0]

\* a >= b as JavaScript evaluates it: false when either side is NaN
Geq(a, b) == ~a.nan /\ ~b.nan /\ a.v >= b.v

Range(s) == {s[i] : i \in DOMAIN s}

\* the sequences over S of length at most n
SeqsUpTo(S, n) == UNION {[1..k -> S] : k \in 0..n}

NoDup(s) == \A i, j \in DOMAIN s : s[i] = s[j] => i = j

IsPermutation(s, t) ==
  /\ Len(s) = Len(t)
  /\ \A x \in Range(s) \cup Range(t) :
       Cardinality({i \in DOMAIN s : s[i] = x})
         = Cardinality({i \in DOMAIN t : t[i] = x})

PermutationsOf(s) == {t \in [DOMAIN s -> Range(s)] : IsPermutation(s, t)}

NonIncreasing(s) == \A i \in 1..(Len(s) - 1) : Geq(s[i].stars, s[i + 1].stars)

(***************************************************************************)
(* repositories.sort((a, b) => b.stars - a.stars), lines 188 and 347.      *)
(* The comparator returns NaN when a star count is NaN, which sort reads   *)
(* as 0.  It is then a consistent comparator only if all the other star    *)
(* counts are equal; otherwise the order is implementation-defined and     *)
(* every permutation is a possible outcome.  A consistent comparator gives *)
(* the stable descending order.                                            *)
(***************************************************************************)
CompareIsConsistent(s) ==
  \/ \A i \in DOMAIN s : ~s[i].stars.nan
  \/ \A i, j \in DOMAIN s :
       (~s[i].stars.nan /\ ~s[j].stars.nan) => s[i].stars.v = s[j].stars.v

\* r goes behind every element that does not sort after it
InsertByStars(s, r) ==
  LET keep == {i \in DOMAIN s : r.stars.nan \/ s[i].stars.nan
                                  \/ s[i].stars.v >= r.stars.v}
      k == IF r.stars.nan \/ \E i \in DOMAIN s : s[i].stars.nan
           THEN Len(s)
           ELSE Cardinality(keep)
  IN SubSeq(s, 1, k) \o <<r>> \o SubSeq(s, k + 1, Len(s))

RECURSIVE StableSortByStars(_)
StableSortByStars(s) ==
  IF s = <<>> THEN <<>>
  ELSE InsertByStars(StableSortByStars(SubSeq(s, 1, Len(s) - 1)), s[Len(s)])

SortByStars(s) ==
  IF CompareIsConsistent(s) THEN {StableSortByStars(s)} ELSE PermutationsOf(s)


(***************************************************************************)
(* parseStarCount, lines 352-365.  A text is a sequence of one-character   *)
(* strings.                                                                *)
(***************************************************************************)
Digits == {"0", "1", "2", "3", "4", "5", "6", "7", "8", "9"}

DigitVal(c) ==
  CASE c = "0" -> 0 [] c = "1" -> 1 [] c = "2" -> 2 [] c = "3" -> 3
    [] c = "4" -> 4 [] c = "5" -> 5 [] c = "6" -> 6 [] c = "7" -> 7
    [] c = "8" -> 8 [] c = "9" -> 9

RECURSIVE Pow10(_)
Pow10(n) == IF n = 0 THEN 1 ELSE 10 * Pow10(n - 1)

\* the decimal value of a sequence of digits (0 for the empty one)
RECURSIVE DecVal(_)
DecVal(ds) ==
  IF ds = <<>> THEN 0
  ELSE 10 * DecVal(SubSeq(ds, 1, Len(ds) - 1)) + DigitVal(ds[Len(ds)])

\* the longest prefix of s made of digits
DigitPrefix(s) ==
  LET n == IF \E i \in DOMAIN s : s[i] \notin Digits
           THEN (CHOOSE i \in DOMAIN s :
                   s[i] \notin Digits /\ \A j \in 1..(i - 1) : s[j] \in Digits) - 1
           ELSE Len(s)
  IN SubSeq(s, 1, n)

\* starsText.replace(/[,\s]/g, ''), line 353
StripCommasAndSpace(s) == SelectSeq(s, LAMBDA c : c \notin {",", " "})

\* cleaned.toLowerCase().includes(c), lines 356 and 359
IncludesIgnoringCase(s, lower, upper) == \E i \in DOMAIN s : s[i] \in {lower, upper}

\* parseInt(cleaned, 10), line 363: the digit prefix, NaN when there is none
ParseInt(s) ==
  LET ds == DigitPrefix(s)
  IN IF ds = <<>> THEN NaN ELSE Num(DecVal(ds))

\* parseFloat(cleaned): the longest prefix digits [. digits] or . digits, as
\* the fraction num / 10^scale; NaN when no digit is read
ParseFloat(s) ==
  LET ip == DigitPrefix(s)
      rest == SubSeq(s, Len(ip) + 1, Len(s))
      fp == IF rest # <<>> /\ rest[1] = "."
            THEN DigitPrefix(SubSeq(rest, 2, Len(rest)))
            ELSE <<>>
  IN IF ip = <<>> /\ fp = <<>>
     THEN [nan |-> TRUE, num |-> 0, scale |-> 0]
     ELSE [nan |-> FALSE, num |-> DecVal(ip \o fp), scale |-> Len(fp)]

\* Math.round(f * mult): the nearest integer, a half rounding up; NaN stays NaN
RoundTimes(f, mult) ==
  IF f.nan THEN NaN
  ELSE Num((2 * f.num * mult + Pow10(f.scale)) \div (2 * Pow10(f.scale)))

parseStarCount(text) ==
  LET cleaned == StripCommasAndSpace(text)
  IN IF IncludesIgnoringCase(cleaned, "k", "K")
     THEN RoundTimes(ParseFloat(cleaned), 1000)
     ELSE IF IncludesIgnoringCase(cleaned, "m", "M")
          THEN RoundTimes(ParseFloat(cleaned), 1000000)
          ELSE LET parsed == ParseInt(cleaned)
               IN IF parsed.nan THEN Num(0) ELSE parsed


(***************************************************************************)
(* What the servers may answer.                                            *)
(***************************************************************************)
\* outcome of one awaited fetch: a 2xx response, another status, or a throw
\* (by fetch, by reading the body, or by using the body)
Outcomes == {"ok", "http", "throw"}

\* repository full names, as numbers
RepoNames == 1..MaxRepos

\* data.items.length of a search page: none, one short of full, full
ItemCounts == {0, perPage - 1, perPage}

\* the distinct repository.full_name values of a page with n items, in the
\* order the items first mention them
PageNames(n, Names) ==
  {s \in SeqsUpTo(Names, Cardinality(Names)) :
     NoDup(s) /\ Len(s) <= n /\ (n > 0 => Len(s) > 0)}

\* star texts the dependents page shows: a number, k notation, a bare "k"
ScrapedStarTexts == {<<"5">>, <<"1", "k">>, <<"k">>}

\* one Box-row: href 0 is a row whose repository link is missing
DepEntries == {[href |-> h, starsText |-> t] : h \in 0..1, t \in ScrapedStarTexts}

\* the rows of one dependents page
DepPages == SeqsUpTo(DepEntries, MaxEntries)

\* the "Next" control of a page: no such link, a disabled one, or a link to
\* another page
NextControls == {"absent", "disabled", "link"}

\* the one page a spec that varies the collector's answers lets the listing
\* serve: a single row with a plain star count
PlainPage == <<[href |-> 1, starsText |-> <<"5">>]>>

NoFile == [written |-> FALSE, content |-> <<>>]
FileOf(list) == [written |-> TRUE, content |-> list]

Init ==
  /\ token \in BOOLEAN
  /\ exitCode = 0
  /\ inflight = {}
  /\ cpc = "start"
  /\ page = 1
  /\ uniqueRepoNames = <<>>
  /\ repositories = <<>>
  /\ repoFile = NoFile
  /\ trace = <<>>
  /\ pageLog = <<>>
  /\ detailReqs = <<>>
  /\ detailLog = <<>>
  /\ preSortRepos = <<>>
  /\ spc = "notStarted"
  /\ currentPage = 1
  /\ nextPageUrl = 1
  /\ depRepos = <<>>
  /\ depFile = NoFile
  /\ depLog = <<>>
  /\ depFetches = 0
  /\ preSortDeps = <<>>
  /\ ppc = "idle"
  /\ starsText = <<>>
  /\ starCount = Num(0)

(***************************************************************************)
(* searchViemRepos, lines 65-209.                                          *)
(***************************************************************************)
\* uniqueRepoNames.add(name) for every name of a page, lines 123-125
RECURSIVE AddAll(_, _)
AddAll(set, names) ==
  IF names = <<>> THEN set
  ELSE AddAll(IF names[1] \in Range(set) THEN set ELSE Append(set, names[1]),
              SubSeq(names, 2, Len(names)))

\* process.exit(1): the process ends, whatever else was pending
ProcessExit ==
  /\ exitCode' = 1
  /\ inflight' = {}

\* lines 104: the fetch of search page p
IssuePageRequest(p) ==
  /\ cpc' = "awaitPage"
  /\ page' = p
  /\ inflight' = inflight \cup {"search"}
  /\ trace' = Append(trace, [ev |-> "page", n |-> p])

TokenNeverMissing == FALSE

\* line 72: !process.env.GITHUB_TOKEN
TokenMissing == ~token

\* lines 65-104: the call at line 212, up to the first await
SearchStart ==
  /\ exitCode = 0
  /\ cpc = "start"
  /\ IF TokenMissing
     THEN /\ cpc' = "exited"
          /\ ProcessExit
          /\ UNCHANGED <<page, trace>>
     ELSE /\ IssuePageRequest(1)
          /\ UNCHANGED exitCode
  /\ UNCHANGED <<token, uniqueRepoNames, repositories, repoFile, pageLog,
                 detailReqs, detailLog, preSortRepos>>
  /\ UNCHANGED scrapeVars
  /\ UNCHANGED parseVars

\* lines 151-196: the for-of loop resumed with `repos` accumulated and `reqs`
\* requested: the next detail fetch, or the sort and the write of the file
NextDetailOrWrite(names, reqs, repos) ==
  IF Len(reqs) < Len(names)
  THEN /\ cpc' = "awaitDetail"
       /\ detailReqs' = Append(reqs, names[Len(reqs) + 1])
       /\ inflight' = (inflight \ {"search", "detail"}) \cup {"detail"}
       /\ repositories' = repos
       /\ UNCHANGED preSortRepos
  ELSE /\ cpc' = "write"
       /\ detailReqs' = reqs
       /\ inflight' = inflight \ {"search", "detail"}
       /\ preSortRepos' = repos
       /\ repositories' \in SortByStars(repos)

PageFailureBreaks(status) ==
  /\ pageLog' = Append(pageLog, [status |-> status, items |-> 0])
  /\ NextDetailOrWrite(uniqueRepoNames, <<>>, <<>>)
  /\ UNCHANGED <<exitCode, page, uniqueRepoNames, trace>>

\* lines 106-111 and 205-208: a page answered with another status (or a throw
\* in the loop) reaches the outer catch: process.exit(1)
PageFailure(status) ==
  /\ pageLog' = Append(pageLog, [status |-> status, items |-> 0])
  /\ cpc' = "exited"
  /\ ProcessExit
  /\ UNCHANGED <<page, uniqueRepoNames, repositories, trace, detailReqs,
                 preSortRepos>>

StopPagingAtFullPage(n) == n <= perPage

\* line 132: data.items.length < perPage
StopPaging(n) == n < perPage

PauseAlways(p) == TRUE

\* line 138: page < maxPages
PauseNeeded(p) == p < maxPages

\* lines 104-156: the answer to a search-page request.  No answer is handled
\* before the module's top level has run to its end, the call at line 429
\* included.
SearchPageResponse(Names) ==
  /\ exitCode = 0
  /\ cpc = "awaitPage"
  /\ spc # "notStarted"
  /\ \E status \in Outcomes :
       IF status # "ok"
       THEN PageFailure(status)
       ELSE \E n \in ItemCounts : \E names \in PageNames(n, Names) :
            LET unique == AddAll(uniqueRepoNames, names)
            IN /\ pageLog' = Append(pageLog, [status |-> "ok", items |-> n])
               /\ uniqueRepoNames' = unique
               /\ UNCHANGED exitCode
               /\ IF StopPaging(n)
                  THEN \* line 132: break
                       /\ NextDetailOrWrite(unique, <<>>, <<>>)
                       /\ UNCHANGED <<page, trace>>
                  ELSE IF PauseNeeded(page)
                       THEN \* line 139: the 7 second timer
                            /\ cpc' = "pause"
                            /\ trace' = Append(trace, [ev |-> "pause", ms |-> PauseMs])
                            /\ inflight' = inflight \ {"search"}
                            /\ UNCHANGED <<page, repositories, detailReqs,
                                           preSortRepos>>
                       ELSE \* page++ ends the loop
                            /\ NextDetailOrWrite(unique, <<>>, <<>>)
                            /\ page' = page + 1
                            /\ UNCHANGED trace
  /\ UNCHANGED <<token, repoFile, detailLog>>
  /\ UNCHANGED scrapeVars
  /\ UNCHANGED parseVars

\* lines 139, 101-104: the timer fires, page++, and while page <= maxPages
\* the next page is requested
SearchPauseDone ==
  /\ exitCode = 0
  /\ cpc = "pause"
  /\ IF page + 1 <= maxPages
     THEN /\ IssuePageRequest(page + 1)
          /\ UNCHANGED <<repositories, detailReqs, preSortRepos>>
     ELSE /\ NextDetailOrWrite(uniqueRepoNames, <<>>, <<>>)
          /\ page' = page + 1
          /\ UNCHANGED trace
  /\ UNCHANGED <<token, exitCode, uniqueRepoNames, repoFile, pageLog, detailLog>>
  /\ UNCHANGED scrapeVars
  /\ UNCHANGED parseVars

KeepRecordUnlessThrown(status) == status # "throw"

\* line 158: repoResponse.ok, reached only if the fetch did not throw
KeepRecord(status) == status = "ok"

\* lines 153-185: the answer to a detail request
DetailResponse(Names, Stars) ==
  /\ exitCode = 0
  /\ cpc = "awaitDetail"
  /\ LET fullName == detailReqs[Len(detailReqs)]
     IN \E status \in Outcomes :
        \E full_name \in Names, stars \in Stars :
          LET got == [name |-> fullName,
                      status |-> status,
                      full_name |-> IF status = "ok" THEN full_name ELSE 0,
                      stars |-> IF status = "ok" THEN stars ELSE 0]
              repos == IF KeepRecord(status)
                       THEN Append(repositories,
                                   [full_name |-> full_name, stars |-> Num(stars)])
                       ELSE repositories
          IN /\ detailLog' = Append(detailLog, got)
             /\ NextDetailOrWrite(uniqueRepoNames, detailReqs, repos)
  /\ UNCHANGED <<token, exitCode, page, uniqueRepoNames, repoFile, trace, pageLog>>
  /\ UNCHANGED scrapeVars
  /\ UNCHANGED parseVars

\* line 196: Bun.write of ./viem_repositories.json ends
SearchWriteDone ==
  /\ exitCode = 0
  /\ cpc = "write"
  /\ repoFile' = FileOf(repositories)
  /\ cpc' = "done"
  /\ UNCHANGED <<token, exitCode, inflight, page, uniqueRepoNames, repositories,
                 trace, pageLog, detailReqs, detailLog, preSortRepos>>
  /\ UNCHANGED scrapeVars
  /\ UNCHANGED parseVars


(***************************************************************************)
(* main and scrapeGitHubDependents, lines 225-350 and 368-429.  maxPages   *)
(* is undefined at line 371, so the parameter defaults to Infinity and     *)
(* `currentPage <= maxPages` never ends the loop.                          *)
(***************************************************************************)
\* lines 277-313: the records the rows of one page add; a row without a
\* repository link adds none
RECURSIVE RecordsOf(_)
RecordsOf(entries) ==
  IF entries = <<>> THEN <<>>
  ELSE LET e == entries[1]
           tail == RecordsOf(SubSeq(entries, 2, Len(entries)))
       IN IF e.href = 0
          THEN tail
          ELSE <<[full_name |-> e.href, stars |-> parseStarCount(e.starsText)]>>
                 \o tail

\* lines 346-349 and 380-386: the loop is left with `repos` accumulated: sort,
\* return to main, Bun.write is started
SortAndStartWrite(repos) ==
  /\ preSortDeps' = repos
  /\ depRepos' \in SortByStars(repos)
  /\ spc' = "write"

\* lines 368-380 and 230-258: the call at line 429, up to the first await.
\* Line 429 is reached once the call at line 212 has returned its promise.
MainStart ==
  /\ exitCode = 0
  /\ cpc # "start"
  /\ spc = "notStarted"
  /\ spc' = "awaitPage"
  /\ inflight' = inflight \cup {"dependents"}
  /\ depFetches' = depFetches + 1
  /\ UNCHANGED <<token, exitCode, currentPage, nextPageUrl, depRepos, depFile,
                 depLog, preSortDeps>>
  /\ UNCHANGED searchVars
  /\ UNCHANGED parseVars

\* lines 243-344: the answer to a dependents-page request
DepPageResponse(Statuses, Pages, Controls) ==
  /\ exitCode = 0
  /\ spc = "awaitPage"
  /\ inflight' = inflight \ {"dependents"}
  /\ \E status \in Statuses :
       IF status # "ok"
       THEN \* lines 260-263 and 340-343: break
            /\ depLog' = Append(depLog, status)
            /\ SortAndStartWrite(depRepos)
            /\ UNCHANGED <<currentPage, nextPageUrl>>
       ELSE \E entries \in Pages, next \in Controls :
            /\ next = "link" => currentPage < MaxDepPages
            /\ IF entries = <<>>
               THEN \* lines 272-275: break
                    /\ depLog' = Append(depLog, "empty")
                    /\ SortAndStartWrite(depRepos)
                    /\ UNCHANGED <<currentPage, nextPageUrl>>
               ELSE LET repos == depRepos \o RecordsOf(entries)
                    IN IF next # "link"
                       THEN \* lines 321-325: nextPageUrl = null, break
                            /\ depLog' = Append(depLog, "last")
                            /\ nextPageUrl' = 0
                            /\ SortAndStartWrite(repos)
                            /\ UNCHANGED currentPage
                       ELSE \* lines 328-339: the 2-3 second timer
                            /\ depLog' = Append(depLog, "more")
                            /\ nextPageUrl' = currentPage + 1
                            /\ currentPage' = currentPage + 1
                            /\ depRepos' = repos
                            /\ spc' = "pause"
                            /\ UNCHANGED preSortDeps
  /\ UNCHANGED <<token, exitCode, depFile, depFetches>>
  /\ UNCHANGED searchVars
  /\ UNCHANGED parseVars

\* lines 339, 237-258: the timer fires, the loop test, the next fetch
DepPauseDone ==
  /\ exitCode = 0
  /\ spc = "pause"
  /\ IF nextPageUrl # 0
     THEN /\ spc' = "awaitPage"
          /\ inflight' = inflight \cup {"dependents"}
          /\ depFetches' = depFetches + 1
          /\ UNCHANGED <<depRepos, preSortDeps>>
     ELSE /\ SortAndStartWrite(depRepos)
          /\ UNCHANGED <<inflight, depFetches>>
  /\ UNCHANGED <<token, exitCode, currentPage, nextPageUrl, depFile, depLog>>
  /\ UNCHANGED searchVars
  /\ UNCHANGED parseVars

\* line 386: Bun.write of ./viem_dependents_scraped.json ends
DepWriteDone ==
  /\ exitCode = 0
  /\ spc = "write"
  /\ depFile' = FileOf(depRepos)
  /\ spc' = "done"
  /\ UNCHANGED <<token, exitCode, inflight, currentPage, nextPageUrl, depRepos,
                 depLog, depFetches, preSortDeps>>
  /\ UNCHANGED searchVars
  /\ UNCHANGED parseVars

(***************************************************************************)
(* The program: both pipelines in one process.  Neither pipeline reads or  *)
(* writes the other's variables; they share the process (exitCode) and the *)
(* network (inflight).  Spec varies the answers the collector gets and     *)
(* lets the listing serve plain pages; SpecScrape varies the pages the     *)
(* scraper gets and lets the search know a single repository.              *)
(***************************************************************************)
Next ==
  \/ SearchStart
  \/ SearchPageResponse(RepoNames)
  \/ SearchPauseDone
  \/ DetailResponse(RepoNames, {0})
  \/ SearchWriteDone
  \/ MainStart
  \/ DepPageResponse({"ok"}, {PlainPage}, {"absent", "link"})
  \/ DepPauseDone
  \/ DepWriteDone

Spec == Init /\ [][Next]_vars

NextScrape ==
  \/ SearchStart
  \/ SearchPageResponse({1})
  \/ SearchPauseDone
  \/ DetailResponse({1}, {0})
  \/ SearchWriteDone
  \/ MainStart
  \/ DepPageResponse(Outcomes, DepPages, NextControls)
  \/ DepPauseDone
  \/ DepWriteDone

SpecScrape == Init /\ [][NextScrape]_vars

(***************************************************************************)
(* parseStarCount on its own: every text of at most MaxLen characters over *)
(* StarAlphabet, and the texts the documentation names.                    *)
(***************************************************************************)
StarAlphabet == {"1", "5", ".", ",", " ", "k", "K", "m", "M", "a"}

NamedStarTexts ==
  {<<"1", ",", "2", "3", "4">>, <<"1", ".", "2", "k">>, <<"3", "m">>, <<>>,
   <<"a", "b", "c">>, <<"1", ".", "2", "3", "4", "5", "k">>}

StarTexts == SeqsUpTo(StarAlphabet, MaxLen) \cup NamedStarTexts

InitParse ==
  /\ token = TRUE
  /\ exitCode = 0
  /\ inflight = {}
  /\ cpc = "start"
  /\ page = 1
  /\ uniqueRepoNames = <<>>
  /\ repositories = <<>>
  /\ repoFile = NoFile
  /\ trace = <<>>
  /\ pageLog = <<>>
  /\ detailReqs = <<>>
  /\ detailLog = <<>>
  /\ preSortRepos = <<>>
  /\ spc = "notStarted"
  /\ currentPage = 1
  /\ nextPageUrl = 1
  /\ depRepos = <<>>
  /\ depFile = NoFile
  /\ depLog = <<>>
  /\ depFetches = 0
  /\ preSortDeps = <<>>
  /\ ppc = "input"
  /\ starsText \in StarTexts
  /\ starCount = Num(0)

\* line 293: const stars = parseStarCount(starsText)
ParseStep ==
  /\ ppc = "input"
  /\ starCount' = parseStarCount(starsText)
  /\ ppc' = "parsed"
  /\ UNCHANGED <<token, exitCode, inflight, starsText>>
  /\ UNCHANGED searchVars
  /\ UNCHANGED scrapeVars

NextParse == ParseStep

SpecParse == InitParse /\ [][NextParse]_vars


(***************************************************************************)
(* Properties.                                                             *)
(***************************************************************************)
PageRequests == Cardinality({i \in DOMAIN trace : trace[i].ev = "page"})

Pauses == Cardinality({i \in DOMAIN trace : trace[i].ev = "pause"})

\* the page loop has been left for the detail phase
PagingDone == cpc \in {"awaitDetail", "write", "done"}

\* a search page was answered with a non-success status
PageFailed == \E i \in DOMAIN pageLog : pageLog[i].status = "http"

ShortPages == {i \in DOMAIN pageLog :
                 pageLog[i].status = "ok" /\ pageLog[i].items < perPage}

\* the records of the successful detail responses, in the order they came
RECURSIVE SuccessRecords(_)
SuccessRecords(log) ==
  IF log = <<>> THEN <<>>
  ELSE LET e == log[Len(log)]
           front == SuccessRecords(SubSeq(log, 1, Len(log) - 1))
       IN IF e.status = "ok"
          THEN Append(front, [full_name |-> e.full_name, stars |-> Num(e.stars)])
          ELSE front

DetailFailed == \E i \in DOMAIN detailLog : detailLog[i].status # "ok"

\* C1: the list written to ./viem_repositories.json holds no two records
\* with the same full_name.
C1_UniqueFullNames ==
  repoFile.written =>
    \A i, j \in DOMAIN repoFile.content :
      repoFile.content[i].full_name = repoFile.content[j].full_name => i = j

\* C2: in both pipelines a written list has non-increasing stars and is a
\* permutation of the records accumulated before the sort.
C2_WrittenListsSorted ==
  /\ repoFile.written =>
       /\ NonIncreasing(repoFile.content)
       /\ IsPermutation(repoFile.content, preSortRepos)
  /\ depFile.written =>
       /\ NonIncreasing(depFile.content)
       /\ IsPermutation(depFile.content, preSortDeps)

\* C3: once a search page is answered with a non-success status the process
\* has exited with code 1, that answer is the last thing the collector saw (no
\* page request after it), no detail request was or is issued, and
\* ./viem_repositories.json is not written, whatever names were collected.
C3_FailedPageAborts ==
  PageFailed =>
    /\ exitCode = 1
    /\ cpc = "exited"
    /\ pageLog[Len(pageLog)].status = "http"
    /\ PageRequests = Len(pageLog)
    /\ detailReqs = <<>>
    /\ detailLog = <<>>
    /\ inflight = {}
    /\ ~repoFile.written

C3_Witness ==
  /\ PageFailed
  /\ Len(pageLog) >= 2
  /\ Len(uniqueRepoNames) >= 2

\* C4: pages are requested as 1, 2, ... in order, each after the page before
\* it came back with success and exactly perPage items; when paging has
\* stopped the number of page requests is the index of the first short page,
\* or maxPages if there is none; no detail request is issued before that, and
\* afterwards the detail requests go through the distinct names one by one,
\* one request each.
C4_PageStopRule ==
  /\ \A i \in DOMAIN trace : trace[i].ev = "page" => trace[i].n = (i + 1) \div 2
  /\ PageRequests <= maxPages
  /\ \A i \in 1..(PageRequests - 1) :
       pageLog[i].status = "ok" /\ pageLog[i].items = perPage
  /\ PagingDone =>
       /\ PageRequests = Len(pageLog)
       /\ IF ShortPages # {}
          THEN ShortPages = {PageRequests}
          ELSE PageRequests = maxPages
  /\ ~PagingDone => detailReqs = <<>>
  /\ NoDup(uniqueRepoNames)
  /\ Len(detailReqs) <= Len(uniqueRepoNames)
  /\ detailReqs = SubSeq(uniqueRepoNames, 1, Len(detailReqs))
  /\ cpc \in {"write", "done"} => detailReqs = uniqueRepoNames

C4_Witness ==
  /\ cpc = "done"
  /\ PageRequests = 2
  /\ pageLog[1].items = perPage
  /\ pageLog[2].items = perPage - 1
  /\ Len(detailReqs) = 2

\* C5: a failed detail fetch (another status, or a throw) does not end the
\* run: the process keeps running; as long as a distinct name has no answer
\* yet, the request for the next one is in flight; once all are answered the
\* write can proceed, and the file written holds exactly the records of the
\* successful detail responses, none for a name that failed.
C5_DetailFailureSkipped ==
  /\ DetailFailed => exitCode = 0 /\ cpc \in {"awaitDetail", "write", "done"}
  /\ (PagingDone /\ Len(detailLog) < Len(uniqueRepoNames)) => cpc = "awaitDetail"
  /\ cpc = "awaitDetail" =>
       /\ repositories = SuccessRecords(detailLog)
       /\ Len(detailReqs) = Len(detailLog) + 1
       /\ "detail" \in inflight
  /\ cpc \in {"write", "done"} =>
       /\ Len(detailLog) = Len(uniqueRepoNames)
       /\ \A i \in DOMAIN detailLog : detailLog[i].name = uniqueRepoNames[i]
       /\ preSortRepos = SuccessRecords(detailLog)
       /\ IsPermutation(repositories, SuccessRecords(detailLog))
  /\ cpc = "write" => ENABLED SearchWriteDone
  /\ cpc = "done" =>
       /\ repoFile.written
       /\ IsPermutation(repoFile.content, SuccessRecords(detailLog))

C5_Witness ==
  /\ cpc = "done"
  /\ Len(detailLog) = 2
  /\ detailLog[1].status # "ok"
  /\ detailLog[2].status = "ok"
  /\ Len(repoFile.content) = 1

\* C6: without GITHUB_TOKEN the process exits with code 1 before any request
\* of any kind is issued and without any output file written.
C6_MissingTokenExits ==
  ~token =>
    /\ cpc \in {"start", "exited"}
    /\ cpc = "exited" => exitCode = 1
    /\ trace = <<>>
    /\ detailReqs = <<>>
    /\ depFetches = 0
    /\ inflight = {}
    /\ ~repoFile.written
    /\ ~depFile.written

C6_Witness == ~token /\ exitCode = 1 /\ cpc = "exited"

\* a page of the listing that ends the scraper's paging, as C7 names them
TerminalPageSeen ==
  /\ depLog # <<>>
  /\ depLog[Len(depLog)] \in {"http", "empty", "last"}

\* C7 without its two clauses that fail: after a terminal page no fetch is
\* issued, the scraper goes on to write, and what it writes is a permutation
\* of everything accumulated, the last page's rows included.
ScraperStopsAtTerminalPage ==
  /\ depFetches = Len(depLog) + (IF spc = "awaitPage" THEN 1 ELSE 0)
  /\ TerminalPageSeen =>
       /\ spc \in {"write", "done"}
       /\ depLog = <<"last">> => depFetches = 1
       /\ depLog = <<"more", "empty">> => depFetches = 2
       /\ spc = "done" =>
            /\ depFile.written
            /\ IsPermutation(depFile.content, preSortDeps)

\* C7: once the scraper got a page with a non-success status, or without
\* rows, or without a usable Next control, it issues no further fetch, the
\* run is not an error, and everything accumulated is sorted and written;
\* a first page without Next means one fetch, an empty page 2 means two.
C7_TerminalPageEndsRun ==
  TerminalPageSeen =>
    /\ depFetches = Len(depLog)
    /\ exitCode = 0
    /\ spc \in {"write", "done"}
    /\ depLog = <<"last">> => depFetches = 1
    /\ depLog = <<"more", "empty">> => depFetches = 2
    /\ spc = "done" =>
         /\ depFile.written
         /\ IsPermutation(depFile.content, preSortDeps)
         /\ NonIncreasing(depFile.content)

\* a text that is digits, optionally followed by a dot and digits
IsNumeral(s) ==
  /\ s # <<>>
  /\ s[1] \in Digits
  /\ \A i \in DOMAIN s : s[i] \in Digits \cup {"."}
  /\ Cardinality({i \in DOMAIN s : s[i] = "."}) <= 1

\* a text no number can be read from: it does not start with a digit, nor
\* with a dot and a digit
Unparseable(s) ==
  /\ s = <<>> \/ s[1] \notin Digits
  /\ ~(Len(s) >= 2 /\ s[1] = "." /\ s[2] \in Digits)

\* C8: with commas and whitespace stripped, a numeral followed by k gives
\* round(numeral x 1000), one followed by m gives round(numeral x 1000000),
\* digits alone give their value, a text no number can be read from gives 0,
\* and the result is always a non-negative integer.
C8_StarCountRule ==
  ppc = "parsed" =>
    LET cleaned == StripCommasAndSpace(starsText)
        prefix == SubSeq(cleaned, 1, Len(cleaned) - 1)
        last == cleaned[Len(cleaned)]
    IN /\ ~starCount.nan
       /\ starCount.v >= 0
       /\ Unparseable(cleaned) => starCount = Num(0)
       /\ (cleaned # <<>> /\ last \in {"k", "K"} /\ IsNumeral(prefix)) =>
            starCount = RoundTimes(ParseFloat(prefix), 1000)
       /\ (cleaned # <<>> /\ last \in {"m", "M"} /\ IsNumeral(prefix)) =>
            starCount = RoundTimes(ParseFloat(prefix), 1000000)
       /\ (cleaned # <<>> /\ \A i \in DOMAIN cleaned : cleaned[i] \in Digits) =>
            starCount = Num(DecVal(cleaned))

\* C8 on the texts a number can be read from, and the five named examples
StarCountOfNumerals ==
  ppc = "parsed" =>
    LET cleaned == StripCommasAndSpace(starsText)
        prefix == SubSeq(cleaned, 1, Len(cleaned) - 1)
        last == cleaned[Len(cleaned)]
    IN /\ ~Unparseable(cleaned) => ~starCount.nan /\ starCount.v >= 0
       /\ (cleaned # <<>> /\ last \in {"k", "K"} /\ IsNumeral(prefix)) =>
            starCount = RoundTimes(ParseFloat(prefix), 1000)
       /\ (cleaned # <<>> /\ last \in {"m", "M"} /\ IsNumeral(prefix)) =>
            starCount = RoundTimes(ParseFloat(prefix), 1000000)
       /\ (cleaned # <<>> /\ \A i \in DOMAIN cleaned : cleaned[i] \in Digits) =>
            starCount = Num(DecVal(cleaned))
       /\ starsText = <<"1", ",", "2", "3", "4">> => starCount = Num(1234)
       /\ starsText = <<"1", ".", "2", "k">> => starCount = Num(1200)
       /\ starsText = <<"3", "m">> => starCount = Num(3000000)
       /\ starsText = <<>> => starCount = Num(0)
       /\ starsText = <<"a", "b", "c">> => starCount = Num(0)
       /\ starsText = <<"1", ".", "2", "3", "4", "5", "k">> => starCount = Num(1235)

\* C9: search-page requests and 7 second pauses alternate, starting with a
\* request; a pause starts only when the page before it has been answered,
\* and the next page is requested only when the pause has ended; once the
\* last page request of the run is out, no pause follows it.
C9_OnePauseBetweenPages ==
  /\ \A i \in DOMAIN trace :
       IF i % 2 = 1
       THEN trace[i].ev = "page"
       ELSE trace[i].ev = "pause" /\ trace[i].ms = PauseMs
  /\ cpc = "pause" <=> (trace # <<>> /\ trace[Len(trace)].ev = "pause")
  /\ cpc = "pause" => "search" \notin inflight /\ Len(pageLog) = PageRequests
  /\ cpc = "awaitPage" => Pauses = PageRequests - 1
  /\ (PagingDone \/ cpc = "exited") =>
       /\ trace = <<>> \/ trace[Len(trace)].ev = "page"
       /\ trace # <<>> => Pauses = PageRequests - 1

C9_Witness ==
  /\ cpc = "done"
  /\ PageRequests = maxPages
  /\ Pauses = maxPages - 1
  /\ trace[Len(trace)].ev = "page"

\* C10: at most one HTTP request is in flight at any time.
C10_OneRequestInFlight == Cardinality(inflight) <= 1

====
